---- MODULE Spec2Model ----
(***************************************************************************)
(* lsrv: discovery and correlation pipeline of detector.FindServers, the   *)
(* git helpers it calls and the part of main that drives it.               *)
(*                                                                         *)
(* Strings are sequences of bytes, so that Go's string comparison, prefix  *)
(* and suffix tests and fmt.Sprintf concatenation are computed, not        *)
(* assumed.  A path is the sequence of its "/"-separated segments.         *)
(***************************************************************************)
EXTENDS Integers, Sequences, FiniteSets, TLC

\* ------------------------------------------------------------------ bounds
\* Number of listener lines the scanner may return in one run.
MaxLines == 2
\* Largest port of the contiguous range fed to the classifier in SpecPort.
PortMax == 3100
\* Number of listener lines in SpecKey, where names may contain "|".
MaxKeyLines == 3
MaxRecs == 3

\* ------------------------------------------------------- program constants
MinFields == 9
MaxPID == 2147483647

\* ----------------------------------------------------------------- strings
sCOMMAND == <<67, 79, 77, 77, 65, 78, 68>>
sNode == <<110, 111, 100, 101>>
sRuby == <<114, 117, 98, 121>>
sApp == <<97, 112, 112>>
sLib == <<108, 105, 98>>
sW == <<119>>
sX == <<120>>
sMain == <<109, 97, 105, 110>>
sNA == <<78, 47, 65>>
sDotGit == <<46, 103, 105, 116>>
\* "git@h:o/app.git\n" and "git@h:o/app|x.git\n"
sUrlApp == <<103, 105, 116, 64, 104, 58, 111, 47, 97, 112, 112, 46, 103, 105, 116, 10>>
sUrlAppX ==
  <<103, 105, 116, 64, 104, 58, 111, 47, 97, 112, 112, 124, 120, 46, 103, 105, 116, 10>>
sNewline == <<10>>
sBar == <<124>>
sAppX == <<97, 112, 112, 124, 120>>
sXMain == <<120, 124, 109, 97, 105, 110>>
sXNA == <<120, 124, 78, 47, 65>>
sEmpty == <<>>

HasPrefix(s, p) == Len(s) >= Len(p) /\ SubSeq(s, 1, Len(p)) = p

HasSuffix(s, p) == Len(s) >= Len(p) /\ SubSeq(s, Len(s) - Len(p) + 1, Len(s)) = p

TrimSuffix(s, p) == IF HasSuffix(s, p) THEN SubSeq(s, 1, Len(s) - Len(p)) ELSE s

\* strings.TrimSpace, for ASCII white space.
IsSpace(b) == b \in {9, 10, 11, 12, 13, 32}
RECURSIVE TrimLeft(_)
TrimLeft(s) == IF s # <<>> /\ IsSpace(Head(s)) THEN TrimLeft(Tail(s)) ELSE s
RECURSIVE TrimRight(_)
TrimRight(s) ==
  IF s # <<>> /\ IsSpace(s[Len(s)]) THEN TrimRight(SubSeq(s, 1, Len(s) - 1)) ELSE s
TrimSpace(s) == TrimRight(TrimLeft(s))

\* parts[len(parts)-1] of strings.Split(s, "/"): what follows the last "/".
RECURSIVE LastPart(_)
LastPart(s) ==
  IF \A i \in 1..Len(s) : s[i] # 47 THEN s
  ELSE LastPart(Tail(s))

\* Go's < on strings: bytewise lexicographic.
RECURSIVE StrLess(_, _)
StrLess(a, b) ==
  IF b = <<>> THEN FALSE
  ELSE IF a = <<>> THEN TRUE
  ELSE IF a[1] # b[1] THEN a[1] < b[1]
  ELSE StrLess(Tail(a), Tail(b))

\* strconv.Itoa / the %d verb, for the ports that reach the key (n >= 0).
RECURSIVE Itoa(_)
Itoa(n) == IF n < 10 THEN <<48 + n>> ELSE Itoa(n \div 10) \o <<48 + (n % 10)>>

\* ------------------------------------------------------------ wide numbers
\* A PID token's value may exceed 32 bits: hi * 2^31 + lo, 0 <= lo < 2^31.
WideGt(a, b) == a.hi > b.hi \/ (a.hi = b.hi /\ a.lo > b.lo)
WideZero == [hi |-> 0, lo |-> 0]
WideMaxPID == [hi |-> 0, lo |-> MaxPID]

\* platform.ValidatePID: TRUE when it returns nil.
ValidatePID(pid) ==
  IF ~WideGt(pid, WideZero) THEN FALSE
  ELSE IF WideGt(pid, WideMaxPID) THEN FALSE
  ELSE TRUE

\* ------------------------------------------------------------- port rules
isDevPortNoException(port) ==
  IF port < 1024 THEN FALSE
  ELSE IF port >= 3000 THEN TRUE
  ELSE FALSE
isDevPort(port) ==
  IF port < 1024 THEN FALSE
  ELSE IF port >= 3000 THEN TRUE
  ELSE IF port = 2000 THEN TRUE
  ELSE FALSE

\* ----------------------------------------------------------- listener lines
\* A line of lsof output, by what the scan reads of it:
\*   nf       len(strings.Fields(line))
\*   command  fields[0]      pidStr  fields[1], a numeric token or not
\*   listen   the capture of portRegex, when the line matches it
\*   f9       the part of fields[8] after its last ":"
\* A numeric token is [num |-> TRUE, ...]; num = FALSE is a token strconv.Atoi
\* rejects (not a number, or out of the int range).
PidTok(n) == [num |-> TRUE, hi |-> 0, lo |-> n]
PidTokBad == [num |-> FALSE, hi |-> 0, lo |-> 0]
PidTokNeg == [num |-> TRUE, hi |-> 0 - 1, lo |-> MaxPID]
PidTokHuge == [num |-> TRUE, hi |-> 1, lo |-> 0]
PortTok(n) == [num |-> TRUE, val |-> n]
PortTokBad == [num |-> FALSE, val |-> 0]
Listen(t) == [match |-> TRUE, tok |-> t]
NoListen == [match |-> FALSE, tok |-> PortTokBad]

Line(n, c, p, l, f) == [nf |-> n, command |-> c, pidStr |-> p, listen |-> l, f9 |-> f]
NoLine == Line(0, sEmpty, PidTokBad, NoListen, PortTokBad)

\* strconv.Atoi on a port token: [err, val].
Atoi(tok) == IF tok.num THEN [err |-> FALSE, val |-> tok.val] ELSE [err |-> TRUE, val |-> 0]

extractPort(line) ==
  IF line.listen.match
  THEN LET r == Atoi(line.listen.tok) IN IF r.err THEN 0 ELSE r.val
  ELSE IF line.nf >= MinFields
       THEN LET r == Atoi(line.f9) IN IF r.err THEN 0 ELSE r.val
       ELSE 0

processInfo(pid, command, port) == [pid |-> pid, command |-> command, port |-> port]
NoProc == processInfo(0, sEmpty, 0)

\* One iteration of the first pass: [keep, proc].
Skip == [keep |-> FALSE, proc |-> NoProc]
scanLineNoFieldCheck(line) ==
  IF HasPrefix(line.command, sCOMMAND) THEN Skip
  ELSE LET port == extractPort(line) IN
       IF port = 0 \/ ~isDevPort(port) THEN Skip
       ELSE IF ~line.pidStr.num THEN Skip
       ELSE LET pid == [hi |-> line.pidStr.hi, lo |-> line.pidStr.lo] IN
            IF ~ValidatePID(pid) THEN Skip
            ELSE [keep |-> TRUE, proc |-> processInfo(pid.lo, line.command, port)]
scanLine(line) ==
  IF HasPrefix(line.command, sCOMMAND) THEN Skip
  ELSE IF line.nf < MinFields THEN Skip
  ELSE LET port == extractPort(line) IN
       IF port = 0 \/ ~isDevPort(port) THEN Skip
       ELSE IF ~line.pidStr.num THEN Skip
       ELSE LET pid == [hi |-> line.pidStr.hi, lo |-> line.pidStr.lo] IN
            IF ~ValidatePID(pid) THEN Skip
            ELSE [keep |-> TRUE, proc |-> processInfo(pid.lo, line.command, port)]

\* Lines of the full pipeline: well-formed listeners of two PIDs, and noise.
GoodLines ==
  { Line(10, c, PidTok(p), Listen(PortTok(q)), PortTok(q)) :
      c \in {sNode, sRuby}, p \in {1, 2}, q \in {3000, 3001} }
NoiseLines ==
  { Line(8, sNode, PidTok(1), Listen(PortTok(3000)), PortTokBad),
    Line(10, sNode, PidTok(0), Listen(PortTok(3000)), PortTok(3000)),
    Line(10, sRuby, PidTok(2), Listen(PortTok(0)), PortTok(0)) }
MainLines == GoodLines \cup NoiseLines
\* Lines of SpecKey: the same command and port, listened on by two PIDs.
KeyLines ==
  { Line(10, sNode, PidTok(p), Listen(PortTok(3000)), PortTok(3000)) : p \in {1, 2} }

\* Lines of the scan on its own: every combination of field count, PID token
\* and port source.
ScanLines ==
  { Line(n, c, p, l, f) :
      n \in {8, 9}, c \in {sNode, sCOMMAND},
      p \in {PidTokBad, PidTokNeg, PidTok(0), PidTok(1), PidTok(MaxPID), PidTokHuge},
      l \in {NoListen, Listen(PortTokBad), Listen(PortTok(0)), Listen(PortTok(80)),
             Listen(PortTok(3000)), Listen(PortTok(70000))},
      f \in {PortTokBad, PortTok(0 - 1), PortTok(2000)} }


\* ------------------------------------------------------------------- maps
\* A Go map is a function on the set of its keys.
EmptyMap == <<>>
MapPut(m, k, v) == [x \in (DOMAIN m) \cup {k} |-> IF x = k THEN v ELSE m[x]]
\* m[k] of a map[...]bool: the zero value for a missing key.
MapBool(m, k) == IF k \in DOMAIN m THEN m[k] ELSE FALSE

\* ------------------------------------------------------------------ paths
pWApp == <<sW, sApp>>
pXLib == <<sX, sLib>>
pWAppSlash == <<sW, sApp, sEmpty>>
NoPath == <<>>
Dirs == {pWApp, pXLib}
\* What the OS may report as a process's working directory.
RawPaths == {pWApp, pXLib, pWAppSlash}

\* filepath.Abs of an absolute path: filepath.Clean, which drops empty segments.
\* (It fails only for a relative path when os.Getwd fails; lsof and /proc
\* report absolute paths.)
Abs(p) == [err |-> FALSE, path |-> SelectSeq(p, LAMBDA s : s # sEmpty)]

\* filepath.Base of a non-empty clean path.
Base(p) == IF p = <<>> THEN <<46>> ELSE p[Len(p)]

\* ------------------------------------------- working-directory resolution
\* lsof -Fn output is a sequence of records: "p<pid>", "f<fd>", "n<path>".
RecP(n) == [kind |-> "p", pid |-> PortTok(n), path |-> NoPath]
RecF == [kind |-> "f", pid |-> PortTokBad, path |-> NoPath]
RecN(p) == [kind |-> "n", pid |-> PortTokBad, path |-> p]
\* A "p" record whose rest strconv.Atoi rejects: not a number, or digits out of
\* the int range.
RecPBad == [kind |-> "p", pid |-> PortTokBad, path |-> NoPath]

\* The parse loop of batchGetProcessCWDs over the records not yet read.
RECURSIVE parseBatchOutput(_, _, _)
parseBatchOutput(out, currentPID, cwdMap) ==
  IF out = <<>> THEN cwdMap
  ELSE LET r == Head(out) IN
    IF r.kind = "p"
    THEN LET a == Atoi(r.pid) IN
         parseBatchOutput(Tail(out), IF a.err THEN currentPID ELSE a.val, cwdMap)
    ELSE IF r.kind = "n" /\ currentPID # 0
    THEN LET c == Abs(r.path) IN
         parseBatchOutput(Tail(out), 0,
                          IF c.err THEN cwdMap ELSE MapPut(cwdMap, currentPID, c.path))
    ELSE parseBatchOutput(Tail(out), currentPID, cwdMap)

\* What lsof prints for one PID whose working directory the OS reports as
\* `answer` (NoPath: it cannot tell).
lsofCwdOutput(pid, answer) ==
  IF answer = NoPath THEN <<>> ELSE <<RecP(pid), RecF, RecN(answer)>>

\* What the combined call prints for pids, when it succeeds.
RECURSIVE lsofBatchOutput(_, _)
lsofBatchOutput(ps, answers) ==
  IF ps = <<>> THEN <<>>
  ELSE lsofCwdOutput(Head(ps), answers[Head(ps)]) \o
       lsofBatchOutput(SelectSeq(Tail(ps), LAMBDA q : q # Head(ps)), answers)

\* getProcessCWD: [err, cwd].  On macOS the per-PID lsof call fails when the
\* OS cannot tell; on Linux Lstat or Readlink of /proc/<pid>/cwd does.
RECURSIVE firstN(_)
firstN(out) ==
  IF out = <<>> THEN [err |-> TRUE, cwd |-> NoPath]
  ELSE IF Head(out).kind = "n"
       THEN LET c == Abs(Head(out).path) IN
            IF c.err THEN [err |-> TRUE, cwd |-> NoPath] ELSE [err |-> FALSE, cwd |-> c.path]
       ELSE firstN(Tail(out))

getProcessCWD(pid, mac, answer) ==
  IF ~ValidatePID([hi |-> 0, lo |-> pid]) THEN [err |-> TRUE, cwd |-> NoPath]
  ELSE IF mac
  THEN IF answer = NoPath THEN [err |-> TRUE, cwd |-> NoPath]
       ELSE firstN(lsofCwdOutput(pid, answer))
  ELSE IF answer = NoPath THEN [err |-> TRUE, cwd |-> NoPath]
       ELSE LET c == Abs(answer) IN
            IF c.err THEN [err |-> TRUE, cwd |-> NoPath] ELSE [err |-> FALSE, cwd |-> c.path]

RECURSIVE fallbackLoop(_, _, _, _)
fallbackLoop(ps, mac, answers, cwdMap) ==
  IF ps = <<>> THEN cwdMap
  ELSE LET r == getProcessCWD(Head(ps), mac, answers[Head(ps)]) IN
       fallbackLoop(Tail(ps), mac, answers,
                    IF ~r.err /\ r.cwd # NoPath THEN MapPut(cwdMap, Head(ps), r.cwd)
                    ELSE cwdMap)

fallbackGetCWDsNone(ps, mac, answers) == EmptyMap
fallbackGetCWDs(ps, mac, answers) == fallbackLoop(ps, mac, answers, EmptyMap)

\* The Linux branch of batchGetProcessCWDs: one /proc read per PID.
RECURSIVE procLoop(_, _, _)
procLoop(ps, answers, cwdMap) ==
  IF ps = <<>> THEN cwdMap
  ELSE IF answers[Head(ps)] = NoPath THEN procLoop(Tail(ps), answers, cwdMap)
  ELSE LET c == Abs(answers[Head(ps)]) IN
       procLoop(Tail(ps), answers,
                IF c.err THEN cwdMap ELSE MapPut(cwdMap, Head(ps), c.path))

\* batchGetProcessCWDs(pids) in an environment [mac, batchErr, answers].
batchGetProcessCWDs(ps, env) ==
  IF Len(ps) = 0 THEN EmptyMap
  ELSE IF env.mac
  THEN IF env.batchErr THEN fallbackGetCWDs(ps, env.mac, env.answers)
       ELSE parseBatchOutput(lsofBatchOutput(ps, env.answers), 0, EmptyMap)
  ELSE procLoop(ps, env.answers, EmptyMap)

PidSet(ps) == {ps[i] : i \in 1..Len(ps)}
NoEnv == [mac |-> FALSE, batchErr |-> FALSE, answers |-> EmptyMap]
CwdEnvs(ps) ==
  IF Len(ps) = 0 THEN {NoEnv}
  ELSE { [mac |-> m, batchErr |-> b, answers |-> a] :
           m \in BOOLEAN, b \in BOOLEAN, a \in [PidSet(ps) -> RawPaths \cup {NoPath}] }

\* -------------------------------------------------------------------- git
\* platform.ValidateDir succeeded (valid), <dir>/.git is a directory (dotGit),
\* `git rev-parse --git-dir` exited 0 (revParse).
IsRepo(valid, dotGit, revParse) ==
  IF ~valid THEN FALSE
  ELSE IF dotGit THEN TRUE
  ELSE revParse

\* The remote.origin.url query: [err, out], out what git printed.
RemoteErr == [err |-> TRUE, out |-> <<>>]
RemoteEmpty == [err |-> FALSE, out |-> <<>>]
RemoteApp == [err |-> FALSE, out |-> sUrlApp]
Remotes == {RemoteErr, RemoteEmpty, RemoteApp}
\* A repository whose URL ends in "app|x.git".
RemoteAppX == [err |-> FALSE, out |-> sUrlAppX]
KeyRemotes == {RemoteErr, RemoteApp, RemoteAppX}

GetRepoName(dir, valid, remote) ==
  IF ~valid THEN Base(dir)
  ELSE IF ~remote.err /\ Len(remote.out) > 0
  THEN TrimSuffix(LastPart(TrimSpace(remote.out)), sDotGit)
  ELSE Base(dir)

\* The rev-parse --abbrev-ref HEAD query: [err, out], out what git printed.
BranchErr == [err |-> TRUE, out |-> sEmpty]
BranchMain == [err |-> FALSE, out |-> sMain \o sNewline]
BranchOutputs == {BranchErr, BranchMain}
\* Branches named "x|main" and "x|N/A".
BranchXMain == [err |-> FALSE, out |-> sXMain \o sNewline]
BranchXNA == [err |-> FALSE, out |-> sXNA \o sNewline]
KeyBranches == {BranchErr, BranchMain, BranchXMain, BranchXNA}

GetBranch(valid, query) ==
  IF ~valid THEN sNA
  ELSE IF query.err THEN sNA
  ELSE TrimSpace(query.out)

gitInfo(repo, branch) == [repo |-> repo, branch |-> branch]

\* ---------------------------------------------------- correlation and sort
Server(repo, branch, process, port, cwd) ==
  [Repo |-> repo, Branch |-> branch, Process |-> process, Port |-> port,
   PID |-> 0, CWD |-> cwd]

\* fmt.Sprintf("%s|%s|%s|%d", ...)
serverKey(info, proc) ==
  info.repo \o sBar \o info.branch \o sBar \o proc.command \o sBar \o Itoa(proc.port)

\* The second pass of FindServers over the processes not yet visited:
\* [seen, servers].
RECURSIVE secondPassNoRepoFilter(_, _, _, _, _, _)
secondPassNoRepoFilter(procs, cwds, repoCache, infoCache, seen, out) ==
  IF procs = <<>> THEN [seen |-> seen, servers |-> out]
  ELSE LET proc == Head(procs)
           rest == Tail(procs) IN
    IF proc.pid \notin DOMAIN cwds \/ cwds[proc.pid] = NoPath
    THEN secondPassNoRepoFilter(rest, cwds, repoCache, infoCache, seen, out)
    ELSE LET cwd == cwds[proc.pid]
             info == IF cwd \in DOMAIN infoCache THEN infoCache[cwd]
                     ELSE gitInfo(sEmpty, sEmpty)
             key == serverKey(info, proc) IN
        IF key \in seen
        THEN secondPassNoRepoFilter(rest, cwds, repoCache, infoCache, seen, out)
        ELSE secondPassNoRepoFilter(rest, cwds, repoCache, infoCache, seen \cup {key},
                        Append(out, Server(info.repo, info.branch, proc.command,
                                           proc.port, cwd)))
RECURSIVE secondPass(_, _, _, _, _, _)
secondPass(procs, cwds, repoCache, infoCache, seen, out) ==
  IF procs = <<>> THEN [seen |-> seen, servers |-> out]
  ELSE LET proc == Head(procs)
           rest == Tail(procs) IN
    IF proc.pid \notin DOMAIN cwds \/ cwds[proc.pid] = NoPath
    THEN secondPass(rest, cwds, repoCache, infoCache, seen, out)
    ELSE LET cwd == cwds[proc.pid] IN
      IF ~MapBool(repoCache, cwd)
      THEN secondPass(rest, cwds, repoCache, infoCache, seen, out)
      ELSE IF cwd \notin DOMAIN infoCache
      THEN secondPass(rest, cwds, repoCache, infoCache, seen, out)
      ELSE LET info == infoCache[cwd]
               key == serverKey(info, proc) IN
        IF key \in seen
        THEN secondPass(rest, cwds, repoCache, infoCache, seen, out)
        ELSE secondPass(rest, cwds, repoCache, infoCache, seen \cup {key},
                        Append(out, Server(info.repo, info.branch, proc.command,
                                           proc.port, cwd)))

\* The less function handed to sort.Slice.
serverLessByPort(a, b) == a.Port < b.Port
serverLess(a, b) ==
  IF a.Repo # b.Repo THEN StrLess(a.Repo, b.Repo)
  ELSE IF a.Branch # b.Branch THEN StrLess(a.Branch, b.Branch)
  ELSE a.Port < b.Port

\* sort.Slice sorts in place and is documented as not stable: its result is
\* some permutation of the slice with no pair out of order.
permutationsOf(s) ==
  { [i \in 1..Len(s) |-> s[p[i]]] :
      p \in { q \in [1..Len(s) -> 1..Len(s)] :
                \A i, j \in 1..Len(s) : i # j => q[i] # q[j] } }
sortSlice(s) ==
  { t \in permutationsOf(s) :
      \A i, j \in 1..Len(t) : i < j => ~serverLess(t[j], t[i]) }

\* ================================================================== state
VARIABLES
  pc,           \* position of the main goroutine
  lsofStatus,   \* the listener command: "notrun", "missing", "ok", "failed"
  err,          \* FindServers' error result: "nil" or "lsof"
  exitCode,     \* the exit status, -1 while the process runs
  rendered,     \* what formatter.PrintResults printed: "none", "empty", "table"
  line,         \* scanner.Text() of the current iteration of the first pass
  nread,        \* lines scanned so far
  processes,    \* []processInfo
  pids,         \* []int
  cwdEnv,       \* what the OS answers batchGetProcessCWDs during its call
  cwdRet,       \* the map batchGetProcessCWDs is about to return
  cwdMap,
  uniqueCWDs,
  checkPc,      \* position of each batchCheckGitRepos goroutine, by directory
  checkIsRepo,  \* its local isRepo
  muCheck,      \* the goroutines holding batchCheckGitRepos' mutex
  wgCheck,      \* batchCheckGitRepos' WaitGroup counter
  gitRepoCache,
  gitRepoDirs,
  infoPc,       \* position of each batchGetGitInfo goroutine, by directory
  nameG,        \* getGitInfoParallel's repo-name goroutine: "idle", "run", "done"
  branchG,      \* getGitInfoParallel's branch goroutine
  info,         \* getGitInfoParallel's local info
  muInfo,       \* the goroutines holding batchGetGitInfo's mutex
  wgInfo,       \* batchGetGitInfo's WaitGroup counter
  gitInfoCache,
  branchFailed, \* directories whose branch query failed
  seenServers,
  servers,
  argPort,      \* isDevPort's argument, when it is called on its own
  retDev,       \* and its result: "none", "true", "false"
  batchOut,     \* the combined lsof call's output, when it is parsed on its own
  answered      \* what git.IsRepo, GetRepoName and GetBranch returned, by directory

mainVars == <<pc, lsofStatus, err, exitCode, rendered>>
scanVars == <<line, nread, processes, pids>>
cwdVars == <<cwdEnv, cwdRet, cwdMap, uniqueCWDs>>
checkVars == <<checkPc, checkIsRepo, muCheck, wgCheck, gitRepoCache, gitRepoDirs>>
infoVars == <<infoPc, nameG, branchG, info, muInfo, wgInfo, gitInfoCache, branchFailed>>
outVars == <<seenServers, servers>>
portVars == <<argPort, retDev>>
vars ==
  <<mainVars, scanVars, cwdVars, checkVars, infoVars, outVars, portVars, batchOut,
    answered>>

NoInfo == gitInfo(sEmpty, sEmpty)
NoAnswer == [isRepo |-> FALSE, repo |-> sEmpty, branch |-> sEmpty]

InitRest ==
  /\ lsofStatus = "notrun" /\ err = "nil" /\ exitCode = 0 - 1 /\ rendered = "none"
  /\ line = NoLine /\ nread = 0 /\ processes = <<>> /\ pids = <<>>
  /\ cwdEnv = NoEnv /\ cwdRet = EmptyMap /\ cwdMap = EmptyMap /\ uniqueCWDs = {}
  /\ checkPc = [d \in Dirs |-> "idle"] /\ checkIsRepo = [d \in Dirs |-> FALSE]
  /\ muCheck = {} /\ wgCheck = 0 /\ gitRepoCache = EmptyMap /\ gitRepoDirs = {}
  /\ infoPc = [d \in Dirs |-> "idle"]
  /\ nameG = [d \in Dirs |-> "idle"] /\ branchG = [d \in Dirs |-> "idle"]
  /\ info = [d \in Dirs |-> NoInfo]
  /\ muInfo = {} /\ wgInfo = 0 /\ gitInfoCache = EmptyMap /\ branchFailed = {}
  /\ seenServers = {} /\ servers = <<>>
  /\ answered = [d \in Dirs |-> NoAnswer]

Init == pc = "main" /\ InitRest /\ argPort = 0 /\ retDev = "none" /\ batchOut = <<>>

\* ------------------------------------------------------------------- main
\* main: commandExists("lsof") and, when it is missing, exit 1.
CheckLsof ==
  /\ pc = "main"
  /\ \E exists \in BOOLEAN :
       IF exists
       THEN pc' = "lsof" /\ UNCHANGED <<lsofStatus, exitCode>>
       ELSE pc' = "exited" /\ lsofStatus' = "missing" /\ exitCode' = 1
  /\ UNCHANGED <<err, rendered, scanVars, cwdVars, checkVars, infoVars, outVars, portVars, batchOut,
                 answered>>

\* FindServers: run the listener command; an error returns (nil, err).
RunLsofIgnoringError ==
  /\ pc = "lsof"
  /\ \E ok \in BOOLEAN :
       /\ lsofStatus' = IF ok THEN "ok" ELSE "failed"
       /\ pc' = "scan" /\ err' = "nil"
  /\ UNCHANGED <<exitCode, rendered, scanVars, cwdVars, checkVars, infoVars, outVars, portVars, batchOut,
                 answered>>
RunLsof ==
  /\ pc = "lsof"
  /\ \E ok \in BOOLEAN :
       IF ok
       THEN lsofStatus' = "ok" /\ pc' = "scan" /\ err' = "nil"
       ELSE lsofStatus' = "failed" /\ pc' = "returned" /\ err' = "lsof"
  /\ UNCHANGED <<exitCode, rendered, scanVars, cwdVars, checkVars, infoVars, outVars, portVars, batchOut,
                 answered>>

\* One iteration of the first pass, on a line drawn from `lines`; the output
\* of the listener command has at most `max` lines.
ScanLine(lines, max) ==
  /\ pc = "scan" /\ nread < max
  /\ \E l \in lines :
       LET r == scanLine(l) IN
       /\ line' = l /\ nread' = nread + 1
       /\ processes' = IF r.keep THEN Append(processes, r.proc) ELSE processes
       /\ pids' = IF r.keep THEN Append(pids, r.proc.pid) ELSE pids
  /\ UNCHANGED <<mainVars, cwdVars, checkVars, infoVars, outVars, portVars, batchOut,
                 answered>>

\* scanner.Scan() returns false: the first pass is over.
ScanEnd ==
  /\ pc = "scan"
  /\ pc' = "cwd" /\ line' = NoLine
  /\ UNCHANGED <<lsofStatus, err, exitCode, rendered, nread, processes, pids,
                 cwdVars, checkVars, infoVars, outVars, portVars, batchOut,
                 answered>>

\* The call batchGetProcessCWDs(pids), up to its return statement.
BatchGetProcessCWDs ==
  /\ pc = "cwd"
  /\ \E env \in CwdEnvs(pids) :
       /\ ~env.mac => ~env.batchErr
       /\ cwdEnv' = env
       /\ cwdRet' = batchGetProcessCWDs(pids, env)
  /\ pc' = "cwdRet"
  /\ UNCHANGED <<lsofStatus, err, exitCode, rendered, scanVars, cwdMap, uniqueCWDs,
                 checkVars, infoVars, outVars, portVars, batchOut,
                 answered>>

\* Its return into FindServers, and the collection of the distinct directories.
CwdReturn ==
  /\ pc = "cwdRet"
  /\ cwdMap' = cwdRet
  /\ uniqueCWDs' = {cwdRet[p] : p \in {q \in DOMAIN cwdRet : cwdRet[q] # NoPath}}
  /\ cwdEnv' = NoEnv /\ cwdRet' = EmptyMap
  /\ pc' = "spawnCheck"
  /\ UNCHANGED <<lsofStatus, err, exitCode, rendered, scanVars, checkVars, infoVars,
                 outVars, portVars, batchOut,
                 answered>>

\* ------------------------------------------------------ batchCheckGitRepos
\* wg.Add(1); go func(d) for one directory of the unique working directories.
SpawnCheck(d) ==
  /\ pc = "spawnCheck" /\ d \in uniqueCWDs /\ checkPc[d] = "idle"
  /\ checkPc' = [checkPc EXCEPT ![d] = "call"]
  /\ wgCheck' = wgCheck + 1
  /\ UNCHANGED <<mainVars, scanVars, cwdVars, checkIsRepo, muCheck, gitRepoCache,
                 gitRepoDirs, infoVars, outVars, portVars, batchOut,
                 answered>>

\* The goroutine's isRepo := git.IsRepo(d).
CheckCall(d) ==
  /\ checkPc[d] = "call"
  /\ \E valid \in BOOLEAN, dotGit \in BOOLEAN, revParse \in BOOLEAN :
       /\ checkIsRepo' = [checkIsRepo EXCEPT ![d] = IsRepo(valid, dotGit, revParse)]
       /\ answered' = [answered EXCEPT ![d].isRepo = IsRepo(valid, dotGit, revParse)]
  /\ checkPc' = [checkPc EXCEPT ![d] = "lock"]
  /\ UNCHANGED <<mainVars, scanVars, cwdVars, muCheck, wgCheck, gitRepoCache,
                 gitRepoDirs, infoVars, outVars, portVars, batchOut>>

\* mu.Lock()
CheckLockNoMutex(d) ==
  /\ checkPc[d] = "lock"
  /\ muCheck' = muCheck \cup {d}
  /\ checkPc' = [checkPc EXCEPT ![d] = "insert"]
  /\ UNCHANGED <<mainVars, scanVars, cwdVars, checkIsRepo, wgCheck, gitRepoCache,
                 gitRepoDirs, infoVars, outVars, portVars, batchOut,
                 answered>>
CheckLock(d) ==
  /\ checkPc[d] = "lock" /\ muCheck = {}
  /\ muCheck' = muCheck \cup {d}
  /\ checkPc' = [checkPc EXCEPT ![d] = "insert"]
  /\ UNCHANGED <<mainVars, scanVars, cwdVars, checkIsRepo, wgCheck, gitRepoCache,
                 gitRepoDirs, infoVars, outVars, portVars, batchOut,
                 answered>>

\* results[d] = isRepo
CheckInsert(d) ==
  /\ checkPc[d] = "insert"
  /\ gitRepoCache' = MapPut(gitRepoCache, d, checkIsRepo[d])
  /\ checkPc' = [checkPc EXCEPT ![d] = "unlock"]
  /\ UNCHANGED <<mainVars, scanVars, cwdVars, checkIsRepo, muCheck, wgCheck,
                 gitRepoDirs, infoVars, outVars, portVars, batchOut,
                 answered>>

\* mu.Unlock()
CheckUnlock(d) ==
  /\ checkPc[d] = "unlock"
  /\ muCheck' = muCheck \ {d}
  /\ checkPc' = [checkPc EXCEPT ![d] = "exit"]
  /\ UNCHANGED <<mainVars, scanVars, cwdVars, checkIsRepo, wgCheck, gitRepoCache,
                 gitRepoDirs, infoVars, outVars, portVars, batchOut,
                 answered>>

\* The deferred wg.Done() as the goroutine returns.
CheckDone(d) ==
  /\ checkPc[d] = "exit"
  /\ wgCheck' = wgCheck - 1
  /\ checkIsRepo' = [checkIsRepo EXCEPT ![d] = FALSE]
  /\ checkPc' = [checkPc EXCEPT ![d] = "done"]
  /\ UNCHANGED <<mainVars, scanVars, cwdVars, muCheck, gitRepoCache, gitRepoDirs,
                 infoVars, outVars, portVars, batchOut,
                 answered>>

\* wg.Wait() returns, batchCheckGitRepos returns its map, and FindServers
\* filters the directories that are repositories.
WaitCheckAllDirs ==
  /\ pc = "spawnCheck"
  /\ \A d \in uniqueCWDs : checkPc[d] # "idle"
  /\ wgCheck = 0
  /\ gitRepoDirs' = DOMAIN gitRepoCache
  /\ pc' = "spawnInfo"
  /\ UNCHANGED <<lsofStatus, err, exitCode, rendered, scanVars, cwdVars, checkPc,
                 checkIsRepo, muCheck, wgCheck, gitRepoCache, infoVars, outVars,
                 portVars, batchOut,
                 answered>>
WaitCheck ==
  /\ pc = "spawnCheck"
  /\ \A d \in uniqueCWDs : checkPc[d] # "idle"
  /\ wgCheck = 0
  /\ gitRepoDirs' = {d \in DOMAIN gitRepoCache : gitRepoCache[d]}
  /\ pc' = "spawnInfo"
  /\ UNCHANGED <<lsofStatus, err, exitCode, rendered, scanVars, cwdVars, checkPc,
                 checkIsRepo, muCheck, wgCheck, gitRepoCache, infoVars, outVars,
                 portVars, batchOut,
                 answered>>

\* --------------------------------------------------------- batchGetGitInfo
\* wg.Add(1); go func(d) for one directory of gitRepoDirs.
SpawnInfo(d) ==
  /\ pc = "spawnInfo" /\ d \in gitRepoDirs /\ infoPc[d] = "idle"
  /\ infoPc' = [infoPc EXCEPT ![d] = "fork"]
  /\ wgInfo' = wgInfo + 1
  /\ UNCHANGED <<mainVars, scanVars, cwdVars, checkVars, nameG, branchG, info, muInfo,
                 gitInfoCache, branchFailed, outVars, portVars, batchOut,
                 answered>>

\* getGitInfoParallel(d): info := gitInfo{} and the two goroutines are started.
InfoFork(d) ==
  /\ infoPc[d] = "fork"
  /\ info' = [info EXCEPT ![d] = NoInfo]
  /\ nameG' = [nameG EXCEPT ![d] = "run"]
  /\ branchG' = [branchG EXCEPT ![d] = "run"]
  /\ infoPc' = [infoPc EXCEPT ![d] = "join"]
  /\ UNCHANGED <<mainVars, scanVars, cwdVars, checkVars, muInfo, wgInfo,
                 gitInfoCache, branchFailed, outVars, portVars, batchOut,
                 answered>>

\* info.repo = git.GetRepoName(cwd), then the goroutine's wg.Done().
NameRun(d, remotes) ==
  /\ nameG[d] = "run"
  /\ \E valid \in BOOLEAN, remote \in remotes :
       /\ info' = [info EXCEPT ![d].repo = GetRepoName(d, valid, remote)]
       /\ answered' = [answered EXCEPT ![d].repo = GetRepoName(d, valid, remote)]
  /\ nameG' = [nameG EXCEPT ![d] = "done"]
  /\ UNCHANGED <<mainVars, scanVars, cwdVars, checkVars, infoPc, branchG, muInfo,
                 wgInfo, gitInfoCache, branchFailed, outVars, portVars, batchOut>>

\* info.branch = git.GetBranch(cwd), then the goroutine's wg.Done().
BranchRun(d, outputs) ==
  /\ branchG[d] = "run"
  /\ \E valid \in BOOLEAN, query \in outputs :
       /\ info' = [info EXCEPT ![d].branch = GetBranch(valid, query)]
       /\ answered' = [answered EXCEPT ![d].branch = GetBranch(valid, query)]
       /\ branchFailed' = IF ~valid \/ query.err THEN branchFailed \cup {d}
                          ELSE branchFailed
  /\ branchG' = [branchG EXCEPT ![d] = "done"]
  /\ UNCHANGED <<mainVars, scanVars, cwdVars, checkVars, infoPc, nameG, muInfo,
                 wgInfo, gitInfoCache, outVars, portVars, batchOut>>

\* getGitInfoParallel's wg.Wait() returns and it returns info.
InfoJoinNoWait(d) ==
  /\ infoPc[d] = "join"
  /\ infoPc' = [infoPc EXCEPT ![d] = "lock"]
  /\ UNCHANGED <<mainVars, scanVars, cwdVars, checkVars, nameG, branchG, info, muInfo,
                 wgInfo, gitInfoCache, branchFailed, outVars, portVars, batchOut,
                 answered>>
InfoJoin(d) ==
  /\ infoPc[d] = "join" /\ nameG[d] = "done" /\ branchG[d] = "done"
  /\ infoPc' = [infoPc EXCEPT ![d] = "lock"]
  /\ UNCHANGED <<mainVars, scanVars, cwdVars, checkVars, nameG, branchG, info, muInfo,
                 wgInfo, gitInfoCache, branchFailed, outVars, portVars, batchOut,
                 answered>>

\* mu.Lock()
InfoLock(d) ==
  /\ infoPc[d] = "lock" /\ muInfo = {}
  /\ muInfo' = muInfo \cup {d}
  /\ infoPc' = [infoPc EXCEPT ![d] = "insert"]
  /\ UNCHANGED <<mainVars, scanVars, cwdVars, checkVars, nameG, branchG, info, wgInfo,
                 gitInfoCache, branchFailed, outVars, portVars, batchOut,
                 answered>>

\* results[d] = info
InfoInsert(d) ==
  /\ infoPc[d] = "insert"
  /\ gitInfoCache' = MapPut(gitInfoCache, d, info[d])
  /\ infoPc' = [infoPc EXCEPT ![d] = "unlock"]
  /\ UNCHANGED <<mainVars, scanVars, cwdVars, checkVars, nameG, branchG, info, muInfo,
                 wgInfo, branchFailed, outVars, portVars, batchOut,
                 answered>>

\* mu.Unlock()
InfoUnlock(d) ==
  /\ infoPc[d] = "unlock"
  /\ muInfo' = muInfo \ {d}
  /\ infoPc' = [infoPc EXCEPT ![d] = "exit"]
  /\ UNCHANGED <<mainVars, scanVars, cwdVars, checkVars, nameG, branchG, info, wgInfo,
                 gitInfoCache, branchFailed, outVars, portVars, batchOut,
                 answered>>

\* The deferred wg.Done() as the goroutine returns.
InfoDone(d) ==
  /\ infoPc[d] = "exit"
  /\ wgInfo' = wgInfo - 1
  /\ info' = [info EXCEPT ![d] = NoInfo]
  /\ infoPc' = [infoPc EXCEPT ![d] = "done"]
  /\ UNCHANGED <<mainVars, scanVars, cwdVars, checkVars, nameG, branchG, muInfo,
                 gitInfoCache, branchFailed, outVars, portVars, batchOut,
                 answered>>

\* wg.Wait() returns and batchGetGitInfo returns its map.
WaitInfoNoBarrier ==
  /\ pc = "spawnInfo"
  /\ \A d \in gitRepoDirs : infoPc[d] # "idle"
  /\ pc' = "correlate"
  /\ UNCHANGED <<lsofStatus, err, exitCode, rendered, scanVars, cwdVars, checkVars,
                 infoVars, outVars, portVars, batchOut,
                 answered>>
WaitInfo ==
  /\ pc = "spawnInfo"
  /\ \A d \in gitRepoDirs : infoPc[d] # "idle"
  /\ wgInfo = 0
  /\ pc' = "correlate"
  /\ UNCHANGED <<lsofStatus, err, exitCode, rendered, scanVars, cwdVars, checkVars,
                 infoVars, outVars, portVars, batchOut,
                 answered>>

\* ---------------------------------------------------- second pass and sort
\* The second pass of FindServers over processes, with the caches as returned.
Correlate ==
  /\ pc = "correlate"
  /\ LET r == secondPass(processes, cwdMap, gitRepoCache, gitInfoCache, {}, <<>>) IN
       seenServers' = r.seen /\ servers' = r.servers
  /\ pc' = "sort"
  /\ UNCHANGED <<lsofStatus, err, exitCode, rendered, scanVars, cwdVars, checkVars,
                 infoVars, portVars, batchOut,
                 answered>>

\* sort.Slice(servers, less) and return servers, nil.
SortServers ==
  /\ pc = "sort"
  /\ servers' \in sortSlice(servers)
  /\ pc' = "returned"
  /\ UNCHANGED <<lsofStatus, err, exitCode, rendered, scanVars, cwdVars, checkVars,
                 infoVars, seenServers, portVars, batchOut,
                 answered>>

\* main after FindServers returned: exit 1 on an error, else print and exit 0.
MainFinish ==
  /\ pc = "returned"
  /\ IF err # "nil"
     THEN exitCode' = 1 /\ UNCHANGED rendered
     ELSE exitCode' = 0 /\ rendered' = IF Len(servers) = 0 THEN "empty" ELSE "table"
  /\ pc' = "exited"
  /\ UNCHANGED <<lsofStatus, err, scanVars, cwdVars, checkVars, infoVars, outVars,
                 portVars, batchOut,
                 answered>>

\* ---------------------------------------------------------- specification
Next ==
  \/ CheckLsof
  \/ RunLsof
  \/ ScanLine(MainLines, MaxLines)
  \/ ScanEnd
  \/ BatchGetProcessCWDs
  \/ CwdReturn
  \/ \E d \in Dirs : SpawnCheck(d)
  \/ \E d \in Dirs : CheckCall(d)
  \/ \E d \in Dirs : CheckLock(d)
  \/ \E d \in Dirs : CheckInsert(d)
  \/ \E d \in Dirs : CheckUnlock(d)
  \/ \E d \in Dirs : CheckDone(d)
  \/ WaitCheck
  \/ \E d \in Dirs : SpawnInfo(d)
  \/ \E d \in Dirs : InfoFork(d)
  \/ \E d \in Dirs : NameRun(d, Remotes)
  \/ \E d \in Dirs : BranchRun(d, BranchOutputs)
  \/ \E d \in Dirs : InfoJoin(d)
  \/ \E d \in Dirs : InfoLock(d)
  \/ \E d \in Dirs : InfoInsert(d)
  \/ \E d \in Dirs : InfoUnlock(d)
  \/ \E d \in Dirs : InfoDone(d)
  \/ WaitInfo
  \/ Correlate
  \/ SortServers
  \/ MainFinish

Spec == Init /\ [][Next]_vars

\* ------------------------------------------------- the classifier on its own
\* isDevPort called on an arbitrary int.
Ports == ((0 - 2)..PortMax) \cup {65535, 65536, 2147483647, 0 - 2147483647}

InitPort ==
  pc = "port" /\ InitRest /\ argPort \in Ports /\ retDev = "none" /\ batchOut = <<>>

ClassifyPort ==
  /\ pc = "port" /\ retDev = "none"
  /\ retDev' = IF isDevPort(argPort) THEN "true" ELSE "false"
  /\ UNCHANGED <<mainVars, scanVars, cwdVars, checkVars, infoVars, outVars, argPort,
                 batchOut, answered>>

NextPort == ClassifyPort

SpecPort == InitPort /\ [][NextPort]_vars

\* ------------------------------------------------- the first pass on its own
\* FindServers from the moment lsof has returned its output, over ScanLines.
InitParse ==
  /\ pc = "scan" /\ lsofStatus = "ok" /\ err = "nil" /\ exitCode = 0 - 1
  /\ rendered = "none"
  /\ line = NoLine /\ nread = 0 /\ processes = <<>> /\ pids = <<>>
  /\ cwdEnv = NoEnv /\ cwdRet = EmptyMap /\ cwdMap = EmptyMap /\ uniqueCWDs = {}
  /\ checkPc = [d \in Dirs |-> "idle"] /\ checkIsRepo = [d \in Dirs |-> FALSE]
  /\ muCheck = {} /\ wgCheck = 0 /\ gitRepoCache = EmptyMap /\ gitRepoDirs = {}
  /\ infoPc = [d \in Dirs |-> "idle"]
  /\ nameG = [d \in Dirs |-> "idle"] /\ branchG = [d \in Dirs |-> "idle"]
  /\ info = [d \in Dirs |-> NoInfo]
  /\ muInfo = {} /\ wgInfo = 0 /\ gitInfoCache = EmptyMap /\ branchFailed = {}
  /\ seenServers = {} /\ servers = <<>>
  /\ answered = [d \in Dirs |-> NoAnswer]
  /\ batchOut = <<>>
  /\ argPort = 0 /\ retDev = "none"

NextParse ==
  \/ ScanLine(ScanLines, MaxLines)
  \/ ScanEnd

SpecParse == InitParse /\ [][NextParse]_vars

\* ------------------------------------- the pipeline with "|" inside names
\* The same program, run where repository and branch names may contain the
\* byte "|" that the deduplication key uses as its separator.
NextKey ==
  \/ CheckLsof
  \/ RunLsof
  \/ ScanLine(KeyLines, MaxKeyLines)
  \/ ScanEnd
  \/ BatchGetProcessCWDs
  \/ CwdReturn
  \/ \E d \in Dirs : SpawnCheck(d)
  \/ \E d \in Dirs : CheckCall(d)
  \/ \E d \in Dirs : CheckLock(d)
  \/ \E d \in Dirs : CheckInsert(d)
  \/ \E d \in Dirs : CheckUnlock(d)
  \/ \E d \in Dirs : CheckDone(d)
  \/ WaitCheck
  \/ \E d \in Dirs : SpawnInfo(d)
  \/ \E d \in Dirs : InfoFork(d)
  \/ \E d \in Dirs : NameRun(d, KeyRemotes)
  \/ \E d \in Dirs : BranchRun(d, KeyBranches)
  \/ \E d \in Dirs : InfoJoin(d)
  \/ \E d \in Dirs : InfoLock(d)
  \/ \E d \in Dirs : InfoInsert(d)
  \/ \E d \in Dirs : InfoUnlock(d)
  \/ \E d \in Dirs : InfoDone(d)
  \/ WaitInfo
  \/ Correlate
  \/ SortServers
  \/ MainFinish

SpecKey == Init /\ [][NextKey]_vars

\* ------------------------------- the parse of the combined call on its own
\* batchGetProcessCWDs on macOS from the moment the combined lsof call has
\* returned without an error, over every output of up to MaxRecs records,
\* well-formed or not.
BatchRecs == {RecP(0), RecP(1), RecP(2), RecPBad, RecF, RecN(pWApp), RecN(pXLib)}
BatchOutputs == UNION { [1..n -> BatchRecs] : n \in 0..MaxRecs }

InitBatch ==
  /\ pc = "batch" /\ InitRest /\ argPort = 0 /\ retDev = "none"
  /\ batchOut \in BatchOutputs

\* The scanner loop over the output and the return of the map.
ParseBatch ==
  /\ pc = "batch"
  /\ cwdRet' = parseBatchOutput(batchOut, 0, EmptyMap)
  /\ pc' = "batchDone"
  /\ UNCHANGED <<lsofStatus, err, exitCode, rendered, scanVars, cwdEnv, cwdMap,
                 uniqueCWDs, checkVars, infoVars, outVars, portVars, batchOut,
                 answered>>

NextBatch == ParseBatch

SpecBatch == InitBatch /\ [][NextBatch]_vars

C8_PidInRange(tok) == tok.num /\ tok.hi = 0 /\ tok.lo >= 1 /\ tok.lo <= 2147483647
C8_Accepts(l) == l.nf >= 9 /\ C8_PidInRange(l.pidStr) /\ extractPort(l) # 0

\* C8: an iteration of the first pass appends a record only for a line with
\* at least 9 fields, a PID in 1..2147483647 and a non-zero extracted port;
\* for every other line it leaves the records as they are, sets no error and
\* goes on scanning; the records already produced are never changed.
C8_LineYieldsRecordOnlyIfValid ==
  [][(pc = "scan" /\ nread' = nread + 1) =>
       /\ processes' # processes => C8_Accepts(line')
       /\ processes' # processes =>
            /\ Len(processes') = Len(processes) + 1
            /\ SubSeq(processes', 1, Len(processes)) = processes
            /\ processes'[Len(processes')].pid = line'.pidStr.lo
            /\ processes'[Len(processes')].command = line'.command
            /\ processes'[Len(processes')].port = extractPort(line')
       /\ ~C8_Accepts(line') => processes' = processes /\ pids' = pids
       /\ err' = "nil" /\ pc' = "scan"]_vars
C8_Witness ==
  /\ pc = "scan" /\ nread = 2 /\ Len(processes) = 1
  /\ line.nf = 8 /\ line.listen.match /\ line.listen.tok = PortTok(3000)
  /\ line.pidStr = PidTok(1) /\ line.command = sNode

\* The records of the first pass that resolve to directory d.
RecordsIn(d) ==
  {i \in 1..Len(processes) :
     processes[i].pid \in DOMAIN cwdMap /\ cwdMap[processes[i].pid] = d}

\* C2: a directory whose membership result is not true contributes no entry,
\* however many records resolve to it: the working directory of every entry
\* has the membership result true in the cache.
C2_OnlyRepositoryEntries ==
  /\ \A k \in 1..Len(servers) :
       servers[k].CWD \in DOMAIN gitRepoCache /\ gitRepoCache[servers[k].CWD]
  /\ \A d \in Dirs :
       ~MapBool(gitRepoCache, d) => \A k \in 1..Len(servers) : servers[k].CWD # d
C2_Witness ==
  /\ pc = "returned" /\ Len(servers) = 1
  /\ \E d \in Dirs :
       /\ d \in DOMAIN gitRepoCache /\ ~gitRepoCache[d]
       /\ Cardinality(RecordsIn(d)) = 1 /\ Len(processes) = 2

\* The tuple order on (Repo, Branch, Port): a is less than or equal to b.
C3_TupleLeq(a, b) ==
  \/ a.Repo # b.Repo /\ StrLess(a.Repo, b.Repo)
  \/ a.Repo = b.Repo /\ a.Branch # b.Branch /\ StrLess(a.Branch, b.Branch)
  \/ a.Repo = b.Repo /\ a.Branch = b.Branch /\ a.Port <= b.Port

\* C3: the returned list is non-decreasing under (Repo, Branch, Port), strings
\* compared bytewise and the port as a number, whatever the order of the
\* listener records.
C3_OutputSorted ==
  (pc \in {"returned", "exited"}) =>
    \A k \in 1..(Len(servers) - 1) : C3_TupleLeq(servers[k], servers[k + 1])
C3_Witness ==
  /\ pc = "returned" /\ Len(servers) = 2
  /\ servers[1].Repo # servers[2].Repo
  /\ servers[1].Port > servers[2].Port
  /\ servers # secondPass(processes, cwdMap, gitRepoCache, gitInfoCache, {}, <<>>).servers

\* C6: when the combined query of the batched path fails, the map that
\* batchGetProcessCWDs returns holds exactly the PIDs whose own query
\* succeeds, each with the directory that query returned.
C6_FallbackMap ==
  (pc = "cwdRet" /\ cwdEnv.mac /\ cwdEnv.batchErr /\ Len(pids) > 0) =>
    /\ DOMAIN cwdRet = {p \in PidSet(pids) : cwdEnv.answers[p] # NoPath}
    /\ \A p \in DOMAIN cwdRet : cwdRet[p] = Abs(cwdEnv.answers[p]).path
C6_Witness ==
  /\ pc = "cwdRet" /\ cwdEnv.mac /\ cwdEnv.batchErr
  /\ PidSet(pids) = {1, 2}
  /\ cwdEnv.answers[1] = NoPath /\ cwdEnv.answers[2] = pWAppSlash
  /\ DOMAIN cwdRet = {2}

\* C7: when the listener command fails or is missing the run is aborted:
\* FindServers returns an error and no entries, no working directory is
\* resolved, no membership or metadata task is started, nothing is rendered
\* and the exit status is non-zero.
C7_LsofFailureAborts ==
  (lsofStatus \in {"failed", "missing"}) =>
    /\ pc \in {"returned", "exited"}
    /\ lsofStatus = "failed" => err = "lsof"
    /\ servers = <<>> /\ processes = <<>> /\ pids = <<>>
    /\ cwdEnv = NoEnv /\ cwdMap = EmptyMap /\ uniqueCWDs = {}
    /\ \A d \in Dirs :
         /\ checkPc[d] = "idle" /\ infoPc[d] = "idle"
         /\ nameG[d] = "idle" /\ branchG[d] = "idle"
    /\ wgCheck = 0 /\ wgInfo = 0
    /\ gitRepoCache = EmptyMap /\ gitInfoCache = EmptyMap
    /\ rendered = "none"
    /\ pc = "exited" => exitCode = 1
    /\ pc = "returned" => ENABLED MainFinish
C7_Witness == lsofStatus = "failed" /\ pc = "exited" /\ exitCode = 1

\* C10: when the second pass starts, every membership task and every
\* name/branch task that was started has inserted its result and finished;
\* the membership cache then has an entry for every distinct resolved
\* directory and the context cache one for every directory with membership
\* true.
C10_Barrier ==
  (pc = "correlate") =>
    /\ \A d \in Dirs :
         /\ checkPc[d] = (IF d \in uniqueCWDs THEN "done" ELSE "idle")
         /\ infoPc[d] = (IF d \in gitRepoDirs THEN "done" ELSE "idle")
         /\ nameG[d] = (IF d \in gitRepoDirs THEN "done" ELSE "idle")
         /\ branchG[d] = (IF d \in gitRepoDirs THEN "done" ELSE "idle")
    /\ wgCheck = 0 /\ wgInfo = 0 /\ muCheck = {} /\ muInfo = {}
    /\ uniqueCWDs = {cwdMap[p] : p \in DOMAIN cwdMap}
    /\ DOMAIN gitRepoCache = uniqueCWDs
    /\ DOMAIN gitInfoCache = {d \in DOMAIN gitRepoCache : gitRepoCache[d]}
C10_Witness ==
  /\ pc = "correlate" /\ uniqueCWDs = Dirs
  /\ gitRepoCache[pWApp] /\ ~gitRepoCache[pXLib]
  /\ DOMAIN gitInfoCache = {pWApp}

\* ------------------------------------------------ entries and their records
\* The four identifying values of an entry.
EntryFour(e) == <<e.Repo, e.Branch, e.Process, e.Port>>
HasEntry(out, four) == \E k \in 1..Len(out) : EntryFour(out[k]) = four

\* Record i resolves in a run whose maps are cw, rc and ic: it has a working
\* directory, the directory is a repository and has a context.
Resolves(i, cw, rc, ic) ==
  /\ processes[i].pid \in DOMAIN cw /\ cw[processes[i].pid] # NoPath
  /\ MapBool(rc, cw[processes[i].pid])
  /\ cw[processes[i].pid] \in DOMAIN ic
FourOf(i, cw, ic) ==
  <<ic[cw[processes[i].pid]].repo, ic[cw[processes[i].pid]].branch,
    processes[i].command, processes[i].port>>

\* C1: the returned list has no two entries that agree on (Repo, Branch,
\* Process, Port), and two records that resolve to the same four values
\* produce exactly one entry with these values.
C1_UniqueAndExactlyOne ==
  (pc \in {"returned", "exited"} /\ lsofStatus = "ok") =>
    /\ \A j, k \in 1..Len(servers) :
         j # k => EntryFour(servers[j]) # EntryFour(servers[k])
    /\ \A i, j \in 1..Len(processes) :
         ( /\ i < j
           /\ Resolves(i, cwdMap, gitRepoCache, gitInfoCache)
           /\ Resolves(j, cwdMap, gitRepoCache, gitInfoCache)
           /\ FourOf(i, cwdMap, gitInfoCache) = FourOf(j, cwdMap, gitInfoCache) )
         => Cardinality({k \in 1..Len(servers) :
                           EntryFour(servers[k]) = FourOf(i, cwdMap, gitInfoCache)}) = 1

\* C5: a record whose directory is a repository and whose branch query
\* failed is still in the returned list, as an entry with its repository,
\* command and port and the branch "N/A", and the run returns no error.
C5_BranchFailureStillEmitted ==
  (pc \in {"returned", "exited"} /\ lsofStatus = "ok") =>
    \A i \in 1..Len(processes) :
      ( /\ Resolves(i, cwdMap, gitRepoCache, gitInfoCache)
        /\ cwdMap[processes[i].pid] \in branchFailed )
      => /\ err = "nil"
         /\ HasEntry(servers, <<gitInfoCache[cwdMap[processes[i].pid]].repo, sNA,
                                 processes[i].command, processes[i].port>>)

\* What record i yields in a run whose maps are cw, rc and ic: the entry with
\* its four values when the returned list has it, nothing otherwise.
Yield(i, cw, rc, ic) ==
  IF /\ Resolves(i, cw, rc, ic)
     /\ HasEntry(secondPass(processes, cw, rc, ic, {}, <<>>).servers, FourOf(i, cw, ic))
  THEN <<FourOf(i, cw, ic)>>
  ELSE <<>>

\* The records of other PIDs than p that run in other directories than d.
OtherRecords(p, d, cw) ==
  {i \in 1..Len(processes) :
     /\ processes[i].pid # p
     /\ processes[i].pid \in DOMAIN cw => cw[processes[i].pid] # d}

\* The contexts a directory can get when its queries succeed or fail.
Contexts(d) ==
  { gitInfo(GetRepoName(d, v, r), GetBranch(w, q)) :
      v \in BOOLEAN, r \in Remotes \cup KeyRemotes,
      w \in BOOLEAN, q \in BranchOutputs \cup KeyBranches }

\* The runs that differ from the present one in that one failed item has
\* succeeded: [cw, rc, ic, others], others being the records the item is not
\* concerned with.
\*   the branch query of a directory
BranchSucceeded ==
  { [cw |-> cwdMap, rc |-> gitRepoCache,
     ic |-> [gitInfoCache EXCEPT ![d].branch = GetBranch(TRUE, q)],
     others |-> OtherRecords(0, d, cwdMap)] :
      d \in branchFailed \cap DOMAIN gitInfoCache,
      q \in {o \in BranchOutputs \cup KeyBranches : ~o.err} }
\*   the name query of a directory
NameSucceeded ==
  { [cw |-> cwdMap, rc |-> gitRepoCache,
     ic |-> [gitInfoCache EXCEPT ![d].repo = GetRepoName(d, TRUE, r)],
     others |-> OtherRecords(0, d, cwdMap)] :
      d \in {e \in DOMAIN gitInfoCache : gitInfoCache[e].repo = Base(e)},
      r \in {o \in Remotes \cup KeyRemotes : ~o.err /\ Len(o.out) > 0} }
\*   the membership check of a directory
MembershipSucceeded ==
  UNION { { [cw |-> cwdMap, rc |-> [gitRepoCache EXCEPT ![d] = TRUE],
             ic |-> MapPut(gitInfoCache, d, c),
             others |-> OtherRecords(0, d, cwdMap)] : c \in Contexts(d) } :
          d \in {e \in DOMAIN gitRepoCache : ~gitRepoCache[e]} }
\*   the working directory of a PID
CwdSucceeded ==
  UNION { { [cw |-> MapPut(cwdMap, p, d),
             rc |-> IF d \in DOMAIN gitRepoCache THEN gitRepoCache
                    ELSE MapPut(gitRepoCache, d, c # NoInfo),
             ic |-> IF d \in DOMAIN gitRepoCache \/ c = NoInfo THEN gitInfoCache
                    ELSE MapPut(gitInfoCache, d, c),
             others |-> OtherRecords(p, d, cwdMap)] :
             c \in Contexts(d) \cup {NoInfo} } :
          p \in PidSet(pids) \ DOMAIN cwdMap, d \in Dirs }

\* C9: a resolution failure for one PID or for one directory does not abort
\* the run, and every record of another PID in another directory yields the
\* same entry as in the run where the failing item had succeeded.
C9_FailureIsolation ==
  (pc = "returned" /\ lsofStatus = "ok") =>
    /\ err = "nil"
    /\ \A a \in BranchSucceeded \cup NameSucceeded \cup MembershipSucceeded
                 \cup CwdSucceeded :
         \A i \in a.others :
           Yield(i, cwdMap, gitRepoCache, gitInfoCache) = Yield(i, a.cw, a.rc, a.ic)

\* The caches and the list of the second pass as the listener records, the
\* working directories and the answers of the git queries determine them.
ExpectedRepoCache == [d \in uniqueCWDs |-> answered[d].isRepo]
ExpectedInfoCache ==
  [d \in {e \in uniqueCWDs : answered[e].isRepo} |->
     gitInfo(answered[d].repo, answered[d].branch)]
ExpectedServers ==
  secondPass(processes, cwdMap, ExpectedRepoCache, ExpectedInfoCache, {}, <<>>).servers

\* C11: for fixed listener records and fixed answers of every external query,
\* the caches read by the second pass, the list it builds and the list that
\* is returned are the same whatever the interleaving and the completion
\* order of the membership, name and branch tasks: they are determined by the
\* records and the answers alone, the returned list being the sort of the
\* list built.
C11_InterleavingIndependent ==
  /\ (pc = "correlate") =>
       gitRepoCache = ExpectedRepoCache /\ gitInfoCache = ExpectedInfoCache
  /\ (pc = "sort") => servers = ExpectedServers
  /\ (pc \in {"returned", "exited"} /\ lsofStatus = "ok") =>
       servers \in sortSlice(ExpectedServers)
C11_Witness ==
  /\ pc = "returned" /\ uniqueCWDs = Dirs /\ Len(servers) = 2
  /\ DOMAIN gitInfoCache = Dirs
  /\ servers[1].CWD # servers[2].CWD

\* A name/branch task of directory d has been started.
InfoStarted(d) == infoPc[d] # "idle" \/ nameG[d] # "idle" \/ branchG[d] # "idle"

\* C12: a name/branch task exists for a directory only once its membership
\* check has finished with the result true, and for a directory whose
\* membership result is false no task is started and no name or branch query
\* is issued.
C12_InfoOnlyAfterMembershipTrue ==
  \A d \in Dirs :
    /\ InfoStarted(d) =>
         /\ checkPc[d] = "done" /\ answered[d].isRepo
         /\ d \in DOMAIN gitRepoCache /\ gitRepoCache[d]
         /\ \A e \in uniqueCWDs : checkPc[e] = "done"
    /\ (checkPc[d] \in {"lock", "insert", "unlock", "exit", "done"}
         /\ ~answered[d].isRepo) =>
         /\ ~InfoStarted(d) /\ d \notin gitRepoDirs
         /\ answered[d].repo = sEmpty /\ answered[d].branch = sEmpty
         /\ d \notin DOMAIN gitInfoCache
C12_Witness ==
  /\ pc = "spawnInfo" /\ uniqueCWDs = Dirs
  /\ nameG[pWApp] = "done" /\ branchG[pWApp] = "run"
  /\ checkPc[pXLib] = "done" /\ ~gitRepoCache[pXLib] /\ ~InfoStarted(pXLib)

\* The lock discipline of the two caches in every state: at most one holder,
\* the holder is exactly the task between its Lock() and its Unlock(), and a
\* holder has no git invocation of its own still to run or running.
LockHeldOnlyForInsertion ==
  /\ Cardinality(muCheck) <= 1 /\ Cardinality(muInfo) <= 1
  /\ muCheck = {d \in Dirs : checkPc[d] \in {"insert", "unlock"}}
  /\ muInfo = {d \in Dirs : infoPc[d] \in {"insert", "unlock"}}
  /\ \A d \in muInfo : nameG[d] = "done" /\ branchG[d] = "done"
  /\ \A d \in Dirs :
       (checkPc[d] = "call" \/ infoPc[d] \in {"fork", "join"}
        \/ nameG[d] = "run" \/ branchG[d] = "run") => d \notin muCheck \cup muInfo

\* Every step that changes a cache is the insertion of the one entry of the
\* single task that holds that cache's lock, and the lock stays held across it.
CacheWrittenOnlyByHolder ==
  /\ gitRepoCache' # gitRepoCache =>
       \E d \in Dirs : /\ muCheck = {d} /\ muCheck' = {d}
                        /\ d \notin DOMAIN gitRepoCache
                        /\ gitRepoCache' = MapPut(gitRepoCache, d, checkIsRepo[d])
  /\ gitInfoCache' # gitInfoCache =>
       \E d \in Dirs : /\ muInfo = {d} /\ muInfo' = {d}
                        /\ d \notin DOMAIN gitInfoCache
                        /\ gitInfoCache' = MapPut(gitInfoCache, d, info[d])

\* C13: each result cache is written only while its single lock is held; at
\* most one task is inside a cache insertion at any time, a task holds the lock
\* only for the insertion of its one entry, and no task holds the lock while
\* its external git invocation is running.
C13_CacheLockDiscipline ==
  [](LockHeldOnlyForInsertion) /\ [][CacheWrittenOnlyByHolder]_vars
C13_Witness ==
  /\ pc = "spawnInfo" /\ DOMAIN gitRepoCache = Dirs
  /\ muInfo = {pWApp} /\ infoPc[pWApp] = "insert"
  /\ infoPc[pXLib] = "join" /\ nameG[pXLib] = "run"

\* Position of entry e in the list the correlation loop emitted.
EmittedAt(e) == CHOOSE k \in 1..Len(ExpectedServers) : ExpectedServers[k] = e
SortTie(a, b) == a.Repo = b.Repo /\ a.Branch = b.Branch /\ a.Port = b.Port

\* C14: in the returned list, two entries equal on (Repo, Branch, Port) stand
\* in the relative order in which the correlation loop emitted them.
C14_SortStable ==
  (pc \in {"returned", "exited"} /\ lsofStatus = "ok") =>
    \A i, j \in 1..Len(servers) :
      (i < j /\ SortTie(servers[i], servers[j])) =>
        EmittedAt(servers[i]) < EmittedAt(servers[j])

\* C15: every listener record has a PID greater than 0 and a port in 1..65535,
\* and so has every returned entry a port in 1..65535.
C15_PortAndPidInRange ==
  /\ \A i \in 1..Len(processes) :
       processes[i].pid > 0 /\ processes[i].port \in 1..65535
  /\ \A i \in 1..Len(servers) : servers[i].Port \in 1..65535

\* In an output, the last "p" record and the last "n" record before record k
\* (0: none).
LastBefore(out, k, kind) ==
  IF \E m \in 1..(k - 1) : out[m].kind = kind
  THEN CHOOSE m \in 1..(k - 1) :
         out[m].kind = kind /\ \A l \in (m + 1)..(k - 1) : out[l].kind # kind
  ELSE 0
\* The "p" record that "n" record k belongs to: the most recently seen one,
\* unless an earlier "n" record has consumed it (0: none).
MarkerOf(out, k) ==
  IF LastBefore(out, k, "p") > LastBefore(out, k, "n")
  THEN LastBefore(out, k, "p") ELSE 0
IsMarkerOf(out, k, pid) ==
  /\ MarkerOf(out, k) # 0
  /\ out[MarkerOf(out, k)].pid = PortTok(pid)

\* C16: every path in the map parsed from the combined response comes from an
\* "n" record whose most recently seen "p" record, not yet consumed by an
\* earlier "n" record, names that PID; an "n" record with no "p" record since
\* the previous "n" record is attached to no PID.
C16_CwdAttachedToLatestMarker ==
  pc = "batchDone" =>
    /\ \A pid \in DOMAIN cwdRet :
         \E k \in 1..Len(batchOut) :
           /\ batchOut[k].kind = "n" /\ cwdRet[pid] = Abs(batchOut[k].path).path
           /\ IsMarkerOf(batchOut, k, pid)
    /\ \A k \in 1..Len(batchOut) :
         (batchOut[k].kind = "n" /\ MarkerOf(batchOut, k) = 0) =>
           \A pid \in DOMAIN cwdRet :
             cwdRet[pid] = Abs(batchOut[k].path).path =>
               \E l \in 1..Len(batchOut) :
                 l # k /\ batchOut[l].kind = "n" /\ IsMarkerOf(batchOut, l, pid)

\* C17: a record that resolves is dropped only as the duplicate of an earlier
\* record with the same (repository, branch, process, port) values, so the four
\* values of every record that resolves are in the returned list exactly once.
C17_DroppedOnlyIfSameFour ==
  (pc \in {"returned", "exited"} /\ lsofStatus = "ok") =>
    \A i \in 1..Len(processes) :
      Resolves(i, cwdMap, gitRepoCache, gitInfoCache) =>
        Cardinality({k \in 1..Len(servers) :
                       EntryFour(servers[k]) = FourOf(i, cwdMap, gitInfoCache)}) = 1
====
